---- MODULE Spec2Model ----
(***************************************************************************)
(* Model of terraform/node_resource_destroy_deposed.go:                    *)
(*   - graphNodeDeposedResource: the graph node of one deposed object of   *)
(*     a resource instance, and the EvalNode tree its EvalTree() builds    *)
(*     (a refresh branch and an apply/destroy branch, each behind an       *)
(*     EvalOpFilter);                                                      *)
(*   - graphNodeDeposer: the embeddable holder of a pre-allocated          *)
(*     DeposedKey.                                                         *)
(* The Eval* step types, the state repository, the provider and the hooks  *)
(* live outside this file; they are modelled from the specification and    *)
(* the tree built in EvalTree() is interpreted over them.                  *)
(***************************************************************************)
EXTENDS Integers, Sequences, FiniteSets, TLC

VARIABLES
    current,    \* the current object of the resource instance address
    deposed,    \* the deposed objects of the address: records [key, id, val]
    nextId,     \* identity given to the next object created
    deposer,    \* a node embedding graphNodeDeposer
    nodeKey,    \* graphNodeDeposedResource.DeposedKey, per deposed node
    lastCall,   \* the last graph-builder call on a deposed node and its result
    ctx         \* per deposed node: the locals of EvalTree and the walk position

vars == <<current, deposed, nextId, deposer, nodeKey, lastCall, ctx>>

----------------------------------------------------------------------------
(* Bounds *)

NumKeys == 3
NumVals == 2
MaxObjs == 4

Keys == 1..NumKeys
Vals == 1..NumVals
Nodes == {1, 2}

\* states.NotDeposed: the zero DeposedKey, "no key"
NotDeposed == 0

\* a nil *states.ResourceInstanceObject ("absent")
NilObj == [id |-> 0, val |-> 0]

Obj(i, v) == [id |-> i, val |-> v]

walkRefresh == "walkRefresh"
walkApply == "walkApply"
walkDestroy == "walkDestroy"
walkPlan == "walkPlan"
WalkOperations == {walkRefresh, walkApply, walkDestroy, walkPlan}

----------------------------------------------------------------------------
(* The tree built by EvalTree() *)

\* mutation: the refresh branch is not filtered by operation
RefreshOpsAll == WalkOperations

RefreshOps == {walkRefresh}

\* mutation: the state is written back before the provider is asked
RefreshNodesWriteFirst ==
    << "EvalGetProvider", "EvalReadStateDeposed", "EvalWriteStateDeposed",
       "EvalRefresh" >>

RefreshNodes ==
    << "EvalGetProvider", "EvalReadStateDeposed", "EvalRefresh",
       "EvalWriteStateDeposed" >>

\* mutation: the apply branch is not kept out of a refresh walk
ApplyOpsAny == {walkRefresh, walkApply, walkDestroy}

ApplyOps == {walkApply, walkDestroy}

\* mutation: the apply error is returned before the state is written back
ApplyNodesReturnFirst ==
    << "EvalGetProvider", "EvalReadStateDeposed", "EvalDiffDestroy",
       "EvalApplyPre", "EvalApply", "EvalReturnError", "EvalWriteStateDeposed",
       "EvalApplyPost", "EvalUpdateStateHook" >>

\* mutation: the destroy is applied a second time within the same walk
ApplyNodesApplyTwice ==
    << "EvalGetProvider", "EvalReadStateDeposed", "EvalDiffDestroy",
       "EvalApplyPre", "EvalApply", "EvalApply", "EvalWriteStateDeposed",
       "EvalApplyPost", "EvalReturnError", "EvalUpdateStateHook" >>

\* mutation: the destroy is planned before the state is read
ApplyNodesReadLate ==
    << "EvalGetProvider", "EvalDiffDestroy", "EvalReadStateDeposed",
       "EvalApplyPre", "EvalApply", "EvalWriteStateDeposed", "EvalApplyPost",
       "EvalReturnError", "EvalUpdateStateHook" >>

\* mutation: the state-updated hook runs before the post-apply hook
ApplyNodesHookFirst ==
    << "EvalGetProvider", "EvalReadStateDeposed", "EvalDiffDestroy",
       "EvalApplyPre", "EvalApply", "EvalWriteStateDeposed",
       "EvalUpdateStateHook", "EvalApplyPost", "EvalReturnError" >>

ApplyNodes ==
    << "EvalGetProvider", "EvalReadStateDeposed", "EvalDiffDestroy",
       "EvalApplyPre", "EvalApply", "EvalWriteStateDeposed", "EvalApplyPost",
       "EvalReturnError", "EvalUpdateStateHook" >>

\* seq.Nodes: the two EvalOpFilter nodes, in the order they are appended
SeqNodes ==
    << [Ops |-> RefreshOps, Nodes |-> RefreshNodes],
       [Ops |-> ApplyOps, Nodes |-> ApplyNodes] >>

\* mutation: EvalApply is not given the Error pointer
EvalApplyNoError == FALSE

\* EvalApply is given Error: &err, so it stores a provider error there and
\* lets the sequence go on
EvalApplyError == TRUE

\* mutation: EvalRefresh is given an Error pointer as EvalApply is
EvalRefreshWithError == TRUE

\* EvalRefresh is given no Error pointer, so a provider error is the step's
\* own error
EvalRefreshError == FALSE

\* the Key field given to EvalReadStateDeposed / EvalWriteStateDeposed
\* mutation: the state is read from under another node's key
ReadKeyOther(n) == nodeKey[CHOOSE m \in Nodes : m # n]

ReadKey(n) == nodeKey[n]

\* mutation: the state is written under another node's key
WriteKeyOther(n) == nodeKey[CHOOSE m \in Nodes : m # n]

WriteKey(n) == nodeKey[n]

----------------------------------------------------------------------------
(* The state repository *)

FiledKeys(dep) == {r.key : r \in dep}

Filed(dep, k) == {r \in dep : r.key = k}

\* ReadDeposed(address, key) -> object-or-absent
ReadDeposed(dep, k) ==
    IF Filed(dep, k) = {} THEN NilObj
    ELSE LET r == CHOOSE r \in Filed(dep, k) : TRUE IN Obj(r.id, r.val)

\* WriteDeposed(address, key, object-or-absent): absent removes the entry
WriteDeposed(dep, k, obj) ==
    (dep \ Filed(dep, k)) \cup
        (IF obj = NilObj THEN {} ELSE {[key |-> k, id |-> obj.id, val |-> obj.val]})

----------------------------------------------------------------------------
(* Walk position and locals *)

\* one observable call made during a walk: its name, the filter it was made
\* under, the key and object it carried, and whether it succeeded
Event(e, b, k, o, ok) == [ev |-> e, br |-> b, key |-> k, obj |-> o, ok |-> ok]

IdleCtx ==
    [run |-> "idle", op |-> walkPlan, outer |-> 0, inner |-> 0,
     provider |-> FALSE, state |-> NilObj, change |-> "nil", err |-> "nil",
     ret |-> "nil", log |-> << >>, prev |-> NilObj]

\* the EvalNode about to be evaluated by node n
CurNode(n) ==
    IF ctx[n].run = "running" /\ ctx[n].outer \in 1..Len(SeqNodes)
    THEN IF ctx[n].inner = 0 THEN "EvalOpFilter"
         ELSE SeqNodes[ctx[n].outer].Nodes[ctx[n].inner]
    ELSE "none"

\* EvalSequence: the whole tree returns to the walker
Return(c, e) ==
    [c EXCEPT !.run = "returned", !.outer = 0, !.inner = 0, !.ret = e,
              !.log = Append(@, Event("Return", 0, 0, NilObj, e = "nil"))]

\* EvalSequence (outer): go on to the next sibling of the current filter
NextSibling(c) ==
    IF c.outer < Len(SeqNodes)
    THEN [c EXCEPT !.outer = @ + 1, !.inner = 0]
    ELSE Return(c, "nil")

\* EvalSequence (inner): a step returned e; stop on an error, else go on
Continue(c, e) ==
    IF e # "nil" THEN Return(c, e)
    ELSE IF c.inner < Len(SeqNodes[c.outer].Nodes)
         THEN [c EXCEPT !.inner = @ + 1]
         ELSE NextSibling(c)

Logged(c, e, k, o, ok) == [c EXCEPT !.log = Append(@, Event(e, c.outer, k, o, ok))]

----------------------------------------------------------------------------
(* graphNodeDeposedResource: graph-builder interface *)

\* CreateBeforeDestroy(): a deposed instance is always create_before_destroy
CreateBeforeDestroyRet(n) == TRUE

\* mutation: create_before_destroy can be deactivated without an error
ModifyCreateBeforeDestroyAccepts(n, v) == "nil"

\* ModifyCreateBeforeDestroy(v): the error returned
ModifyCreateBeforeDestroyRet(n, v) == IF ~v THEN "error" ELSE "nil"

CreateBeforeDestroy(n) ==
    /\ lastCall' = [fn |-> "CreateBeforeDestroy", node |-> n, arg |-> FALSE,
                    ret |-> CreateBeforeDestroyRet(n), err |-> "nil", refs |-> {}]
    /\ UNCHANGED <<current, deposed, nextId, deposer, nodeKey, ctx>>

ModifyCreateBeforeDestroy(n, v) ==
    /\ lastCall' = [fn |-> "ModifyCreateBeforeDestroy", node |-> n, arg |-> v,
                    ret |-> FALSE, err |-> ModifyCreateBeforeDestroyRet(n, v),
                    refs |-> {}]
    /\ UNCHANGED <<current, deposed, nextId, deposer, nodeKey, ctx>>

\* ReferenceableAddrs(): the addresses under which the node can be referred
\* to; nil, since deposed objects do not participate in references
ReferenceableAddrsRet(n) == {}

\* mutation: the node can be referred to by its resource instance address
ReferencesOwnAddr(n) == {"addr"}

\* References(): the references the node makes; nil, since no configuration
\* is evaluated for a deposed object
ReferencesRet(n) == {}

ReferenceableAddrs(n) ==
    /\ lastCall' = [fn |-> "ReferenceableAddrs", node |-> n, arg |-> FALSE,
                    ret |-> FALSE, err |-> "nil",
                    refs |-> ReferenceableAddrsRet(n)]
    /\ UNCHANGED <<current, deposed, nextId, deposer, nodeKey, ctx>>

References(n) ==
    /\ lastCall' = [fn |-> "References", node |-> n, arg |-> FALSE,
                    ret |-> FALSE, err |-> "nil", refs |-> ReferencesRet(n)]
    /\ UNCHANGED <<current, deposed, nextId, deposer, nodeKey, ctx>>

----------------------------------------------------------------------------
(* graphNodeDeposer and the node that deposes the current object *)

\* the zero value of graphNodeDeposer, before any setter call
NewDeposer ==
    [PreallocatedDeposedKey |-> NotDeposed, set |-> FALSE, injected |-> NotDeposed,
     used |-> NotDeposed, usedId |-> 0]

\* mutation: a key already stored is not overwritten
SetPreallocatedDeposedKeyOnce(key) ==
    /\ deposer.used = NotDeposed
    /\ deposer' = [deposer EXCEPT
            !.PreallocatedDeposedKey = IF @ = NotDeposed THEN key ELSE @,
            !.set = TRUE, !.injected = key]
    /\ UNCHANGED <<current, deposed, nextId, nodeKey, lastCall, ctx>>

\* n.PreallocatedDeposedKey = key.  The setter is called during graph
\* construction, so before the node has deposed anything.
SetPreallocatedDeposedKey(key) ==
    /\ deposer.used = NotDeposed
    /\ deposer' = [deposer EXCEPT !.PreallocatedDeposedKey = key,
                                  !.set = TRUE, !.injected = key]
    /\ UNCHANGED <<current, deposed, nextId, nodeKey, lastCall, ctx>>

\* the keys the allocator may generate: those not filed for the address
UnusedKeys(dep) == Keys \ FiledKeys(dep)

\* the node deposes the current object: under its pre-allocated key if it has
\* one, else under a newly generated key
DeposeState ==
    /\ deposer.used = NotDeposed
    /\ current # NilObj
    /\ \E k \in Keys :
        /\ IF deposer.PreallocatedDeposedKey = NotDeposed
           THEN k \in UnusedKeys(deposed)
           ELSE k = deposer.PreallocatedDeposedKey /\ k \notin FiledKeys(deposed)
        /\ deposed' = deposed \cup {[key |-> k, id |-> current.id, val |-> current.val]}
        /\ deposer' = [deposer EXCEPT !.used = k, !.usedId = current.id]
    /\ current' = NilObj
    /\ UNCHANGED <<nextId, nodeKey, lastCall, ctx>>

\* the replacement object is created as the new current object, and the next
\* graph has a new deposer node
CreateReplacement ==
    /\ current = NilObj
    /\ nextId <= MaxObjs
    /\ \E v \in Vals : current' = Obj(nextId, v)
    /\ nextId' = nextId + 1
    /\ deposer' = NewDeposer
    /\ UNCHANGED <<deposed, nodeKey, lastCall, ctx>>

----------------------------------------------------------------------------
(* Evaluation of the tree built by EvalTree() *)

SetCtx(n, c) == ctx' = [ctx EXCEPT ![n] = c]

\* what the walk c, if it was a destroy that failed, was answered by the
\* provider and wrote back: the object a later walk is to start from
LeftByFailedDestroy(c) ==
    LET failed == {i \in DOMAIN c.log :
                        /\ c.log[i].ev = "ApplyDestroy"
                        /\ ~c.log[i].ok
                        /\ c.log[i].obj # NilObj}
        unperformed == {i \in DOMAIN c.log :
                        /\ c.log[i].ev \in {"ReadDeposed", "WriteDeposed"}
                        /\ ~c.log[i].ok}
    IN  IF c.run = "returned" /\ failed # {} /\ unperformed = {}
        THEN c.log[CHOOSE i \in failed : TRUE].obj
        ELSE NilObj

\* the graph walker evaluates node n's tree under operation o; prev keeps
\* for a destroy what the node's previous walk left, for the record
Walk(n, o) ==
    /\ ctx[n].run # "running"
    /\ nodeKey[n] \in FiledKeys(deposed)
    /\ SetCtx(n, [IdleCtx EXCEPT !.run = "running", !.op = o, !.outer = 1,
                               !.prev = IF o \in ApplyOps
                                        THEN LeftByFailedDestroy(ctx[n])
                                        ELSE NilObj])
    /\ UNCHANGED <<current, deposed, nextId, deposer, nodeKey, lastCall>>

EvalOpFilter(n) ==
    /\ CurNode(n) = "EvalOpFilter"
    /\ LET c == ctx[n] IN
        SetCtx(n, IF c.op \in SeqNodes[c.outer].Ops
                  THEN [c EXCEPT !.inner = 1]
                  ELSE NextSibling(c))
    /\ UNCHANGED <<current, deposed, nextId, deposer, nodeKey, lastCall>>

EvalGetProvider(n) ==
    /\ CurNode(n) = "EvalGetProvider"
    /\ SetCtx(n, Continue([ctx[n] EXCEPT !.provider = TRUE], "nil"))
    /\ UNCHANGED <<current, deposed, nextId, deposer, nodeKey, lastCall>>

EvalReadStateDeposed(n) ==
    /\ CurNode(n) = "EvalReadStateDeposed"
    /\ \E ok \in BOOLEAN :
        LET obj == IF ok THEN ReadDeposed(deposed, ReadKey(n)) ELSE NilObj
            c == Logged(ctx[n], "ReadDeposed", ReadKey(n), obj, ok)
        IN  SetCtx(n, IF ok
                      THEN Continue([c EXCEPT !.state = obj], "nil")
                      ELSE Continue(c, "repository"))
    /\ UNCHANGED <<current, deposed, nextId, deposer, nodeKey, lastCall>>

\* what the provider may answer about an object: gone, or the same object
\* with any attributes
ProviderResults(obj) == {NilObj} \cup {Obj(obj.id, v) : v \in Vals}

EvalRefresh(n) ==
    /\ CurNode(n) = "EvalRefresh"
    /\ \E res \in ProviderResults(ctx[n].state), ok \in BOOLEAN :
        LET c == Logged(ctx[n], "Refresh", 0, res, ok) IN
            SetCtx(n, IF ok
                      THEN Continue([c EXCEPT !.state = res], "nil")
                      ELSE IF EvalRefreshError
                           THEN Continue([c EXCEPT !.err = "provider"], "nil")
                           ELSE Continue(c, "provider"))
    /\ UNCHANGED <<current, deposed, nextId, deposer, nodeKey, lastCall>>

EvalDiffDestroy(n) ==
    /\ CurNode(n) = "EvalDiffDestroy"
    /\ \E ok \in BOOLEAN :
        LET c == Logged(ctx[n], "PlanDestroy", 0, ctx[n].state, ok) IN
            SetCtx(n, IF ok
                      THEN Continue([c EXCEPT !.change = "destroy"], "nil")
                      ELSE Continue(c, "provider"))
    /\ UNCHANGED <<current, deposed, nextId, deposer, nodeKey, lastCall>>

EvalApplyPre(n) ==
    /\ CurNode(n) = "EvalApplyPre"
    /\ SetCtx(n, Continue(Logged(ctx[n], "NotifyPreApply", 0, NilObj, TRUE), "nil"))
    /\ UNCHANGED <<current, deposed, nextId, deposer, nodeKey, lastCall>>

EvalApply(n) ==
    /\ CurNode(n) = "EvalApply"
    /\ \E res \in ProviderResults(ctx[n].state), ok \in BOOLEAN :
        LET c == Logged(ctx[n], "ApplyDestroy", 0, res, ok)
            d == [c EXCEPT !.state = res] IN
            SetCtx(n, IF ok
                      THEN Continue(d, "nil")
                      ELSE IF EvalApplyError
                           THEN Continue([d EXCEPT !.err = "provider"], "nil")
                           ELSE Continue(d, "provider"))
    /\ UNCHANGED <<current, deposed, nextId, deposer, nodeKey, lastCall>>

EvalWriteStateDeposed(n) ==
    /\ CurNode(n) = "EvalWriteStateDeposed"
    /\ \E ok \in BOOLEAN :
        LET c == Logged(ctx[n], "WriteDeposed", WriteKey(n), ctx[n].state, ok) IN
            IF ok
            THEN /\ deposed' = WriteDeposed(deposed, WriteKey(n), c.state)
                 /\ SetCtx(n, Continue(c, "nil"))
            ELSE /\ deposed' = deposed
                 /\ SetCtx(n, Continue(c, "repository"))
    /\ UNCHANGED <<current, nextId, deposer, nodeKey, lastCall>>

EvalApplyPost(n) ==
    /\ CurNode(n) = "EvalApplyPost"
    /\ SetCtx(n, Continue(Logged(ctx[n], "NotifyPostApply", 0, NilObj, TRUE), "nil"))
    /\ UNCHANGED <<current, deposed, nextId, deposer, nodeKey, lastCall>>

EvalReturnError(n) ==
    /\ CurNode(n) = "EvalReturnError"
    /\ SetCtx(n, Continue(ctx[n], ctx[n].err))
    /\ UNCHANGED <<current, deposed, nextId, deposer, nodeKey, lastCall>>

EvalUpdateStateHook(n) ==
    /\ CurNode(n) = "EvalUpdateStateHook"
    /\ SetCtx(n, Continue(Logged(ctx[n], "NotifyStateUpdated", 0, NilObj, TRUE), "nil"))
    /\ UNCHANGED <<current, deposed, nextId, deposer, nodeKey, lastCall>>

----------------------------------------------------------------------------

NoCall ==
    [fn |-> "none", node |-> 0, arg |-> FALSE, ret |-> FALSE, err |-> "nil",
     refs |-> {}]

Init ==
    /\ current = Obj(3, 1)
    /\ deposed = {[key |-> n, id |-> n, val |-> 1] : n \in Nodes}
    /\ nextId = 4
    /\ deposer = NewDeposer
    /\ nodeKey = [n \in Nodes |-> n]
    /\ lastCall = NoCall
    /\ ctx = [n \in Nodes |-> IdleCtx]

\* one step of the EvalNode tree of deposed node n
EvalStep(n) ==
    \/ EvalOpFilter(n)
    \/ EvalGetProvider(n)
    \/ EvalReadStateDeposed(n)
    \/ EvalRefresh(n)
    \/ EvalDiffDestroy(n)
    \/ EvalApplyPre(n)
    \/ EvalApply(n)
    \/ EvalWriteStateDeposed(n)
    \/ EvalApplyPost(n)
    \/ EvalReturnError(n)
    \/ EvalUpdateStateHook(n)

\* The graph walk: the deposed nodes' trees are evaluated, concurrently for
\* different keys, any number of times.
Next ==
    \/ \E n \in Nodes, o \in WalkOperations : Walk(n, o)
    \/ \E n \in Nodes : EvalStep(n)

Spec == Init /\ [][Next]_vars


\* the deposed node whose walk is interleaved with the calls below
WalkedNodes == {1}

\* The walks of one deposed node, one after the other.
NextWalked ==
    \/ \E n \in WalkedNodes, o \in WalkOperations : Walk(n, o)
    \/ \E n \in WalkedNodes : EvalStep(n)

\* The walk when every provider, repository and hook call returns: a step of
\* the node's tree that can be taken is eventually taken.
SpecFair ==
    /\ Init /\ [][NextWalked]_vars
    /\ \A n \in WalkedNodes : WF_vars(EvalStep(n))

\* Graph construction: the graph builder's calls on the deposed nodes, in
\* any state of the walk of a deposed node.
NextGraph ==
    \/ \E n \in Nodes : CreateBeforeDestroy(n)
    \/ \E n \in Nodes, v \in BOOLEAN : ModifyCreateBeforeDestroy(n, v)
    \/ \E n \in Nodes : ReferenceableAddrs(n)
    \/ \E n \in Nodes : References(n)
    \/ \E n \in WalkedNodes, o \in WalkOperations : Walk(n, o)
    \/ \E n \in WalkedNodes : EvalStep(n)

SpecGraph == Init /\ [][NextGraph]_vars

\* Deposing: the graph builder's calls on the deposer node, the deposing of
\* the current object and its replacement, interleaved with the walk of a
\* deposed node.
NextDepose ==
    \/ \E k \in Keys \cup {NotDeposed} : SetPreallocatedDeposedKey(k)
    \/ DeposeState
    \/ CreateReplacement
    \/ \E n \in WalkedNodes, o \in WalkOperations : Walk(n, o)
    \/ \E n \in WalkedNodes : EvalStep(n)

SpecDepose == Init /\ [][NextDepose]_vars

----------------------------------------------------------------------------
(* Observations on the walk of node n *)

Log(n) == ctx[n].log

Returned(n) == ctx[n].run = "returned"

\* the positions in n's log of the calls named e
At(n, e) == {i \in DOMAIN Log(n) : Log(n)[i].ev = e}

\* every repository call of the walk was performed
RepoOK(n) ==
    \A i \in At(n, "ReadDeposed") \cup At(n, "WriteDeposed") : Log(n)[i].ok

\* exactly obj is filed under n's key
Holds(n, obj) ==
    Filed(deposed, nodeKey[n]) =
        {[key |-> nodeKey[n], id |-> obj.id, val |-> obj.val]}

HookNames == {"NotifyPreApply", "NotifyPostApply", "NotifyStateUpdated"}

IsHook(e) == e.ev \in HookNames

\* the hooks fired during the walk, in order
HooksFired(n) ==
    LET h == SelectSeq(Log(n), IsHook) IN [i \in DOMAIN h |-> h[i].ev]

----------------------------------------------------------------------------
(* Claims about the apply/destroy and refresh branches (Spec) *)

\* C1: after a walk under Apply or Destroy in which ApplyDestroy failed and
\* returned a partially-updated object P (the repository performing its
\* calls), the repository holds P under the node's key and the error
\* returned to the walker is the provider's error.
C1_DestroyFailureKeepsPartial ==
    \A n \in Nodes :
        (Returned(n) /\ ctx[n].op \in {walkApply, walkDestroy} /\ RepoOK(n)) =>
            \A i \in At(n, "ApplyDestroy") :
                (~Log(n)[i].ok /\ Log(n)[i].obj # NilObj) =>
                    /\ Holds(n, Log(n)[i].obj)
                    /\ ctx[n].ret = "provider"

\* a failed destroy returned P different from the object O read, and P is filed
C1_Witness ==
    \E n \in Nodes :
        /\ Returned(n) /\ ctx[n].op = walkApply /\ RepoOK(n)
        /\ \E i \in At(n, "ApplyDestroy"), j \in At(n, "ReadDeposed") :
            /\ ~Log(n)[i].ok /\ Log(n)[i].obj # NilObj
            /\ Log(n)[i].obj # Log(n)[j].obj
            /\ Holds(n, Log(n)[i].obj)

\* C2: in every walk in which ApplyDestroy was called, a WriteDeposed for
\* the node's key was issued after ApplyDestroy returned and before the
\* walk returned, whether ApplyDestroy succeeded or not; a provider error is
\* returned only after that write.
C2_AlwaysPersistThenReport ==
    \A n \in Nodes :
        Returned(n) =>
            /\ \A i \in At(n, "ApplyDestroy") :
                \E j \in At(n, "WriteDeposed"), r \in At(n, "Return") :
                    /\ i < j /\ j < r
                    /\ Log(n)[j].key = nodeKey[n]
            /\ (ctx[n].ret = "provider" /\ At(n, "ApplyDestroy") # {}) =>
                At(n, "WriteDeposed") # {}

\* a walk whose ApplyDestroy failed has returned the provider's error
C2_Witness ==
    \E n \in Nodes :
        /\ Returned(n) /\ ctx[n].ret = "provider"
        /\ \E i \in At(n, "ApplyDestroy") : ~Log(n)[i].ok
        /\ At(n, "WriteDeposed") # {}

C4_DestroySuccessPrunes ==
    \A n \in Nodes :
        (Returned(n) /\ ctx[n].op \in {walkApply, walkDestroy} /\ RepoOK(n)) =>
            \A i \in At(n, "ApplyDestroy") :
                (Log(n)[i].ok /\ Log(n)[i].obj = NilObj) =>
                    /\ Filed(deposed, nodeKey[n]) = {}
                    /\ ctx[n].ret = "nil"
                    /\ HooksFired(n) =
                        << "NotifyPreApply", "NotifyPostApply", "NotifyStateUpdated" >>

\* a destroy walk has succeeded and its entry is gone
C4_Witness ==
    \E n \in Nodes :
        /\ Returned(n) /\ ctx[n].op = walkDestroy /\ RepoOK(n)
        /\ \E i \in At(n, "ApplyDestroy") : Log(n)[i].ok /\ Log(n)[i].obj = NilObj
        /\ Filed(deposed, nodeKey[n]) = {}

\* C5: after a walk under Refresh in which the provider's Refresh reported
\* the object still existing with attributes U (the repository performing
\* its calls), the repository holds U under the node's key and no error is
\* returned.
C5_RefreshSuccessWritesUpdate ==
    \A n \in Nodes :
        (Returned(n) /\ ctx[n].op = walkRefresh /\ RepoOK(n)) =>
            \A i \in At(n, "Refresh") :
                (Log(n)[i].ok /\ Log(n)[i].obj # NilObj) =>
                    /\ Holds(n, Log(n)[i].obj)
                    /\ ctx[n].ret = "nil"

\* a refresh has replaced the object read by different attributes
C5_Witness ==
    \E n \in Nodes :
        /\ Returned(n) /\ ctx[n].op = walkRefresh /\ RepoOK(n)
        /\ \E i \in At(n, "Refresh"), j \in At(n, "ReadDeposed") :
            /\ Log(n)[i].ok /\ Log(n)[i].obj # NilObj
            /\ Log(n)[i].obj # Log(n)[j].obj
            /\ Holds(n, Log(n)[i].obj)

\* C6: under Refresh no step of the {Apply, Destroy} branch is entered or
\* makes a call, and under Apply or Destroy no step of the {Refresh} branch
\* is entered or makes a call.
C6_OperationFilter ==
    \A n \in Nodes :
        ctx[n].run # "idle" =>
            /\ ctx[n].op = walkRefresh =>
                /\ \A i \in DOMAIN Log(n) : Log(n)[i].br # 2
                /\ ~(ctx[n].outer = 2 /\ ctx[n].inner > 0)
            /\ ctx[n].op \in {walkApply, walkDestroy} =>
                /\ \A i \in DOMAIN Log(n) : Log(n)[i].br # 1
                /\ ~(ctx[n].outer = 1 /\ ctx[n].inner > 0)

\* a refresh walk and an apply walk have both run to their end, each having
\* made its own branch's repository calls
C6_Witness ==
    \E n, m \in Nodes :
        /\ Returned(n) /\ ctx[n].op = walkRefresh /\ At(n, "WriteDeposed") # {}
        /\ Returned(m) /\ ctx[m].op = walkApply /\ At(m, "WriteDeposed") # {}

\* the provider reported during n's walk that the object no longer exists
ReportedAbsent(n) ==
    \E i \in At(n, "Refresh") \cup At(n, "ApplyDestroy") :
        /\ Log(n)[i].obj = NilObj
        /\ Log(n)[i].ev = "Refresh" => Log(n)[i].ok

\* n's walk ran the provider's destroy and it succeeded
DestroySucceeded(n) ==
    /\ ctx[n].op \in {walkApply, walkDestroy}
    /\ \E i \in At(n, "ApplyDestroy") : Log(n)[i].ok

----------------------------------------------------------------------------
(* Claims about the graph-builder interface (SpecGraph) and the deposed keys
   (SpecDepose) *)

\* C8: CreateBeforeDestroy() returns true on every deposed node, whatever
\* ModifyCreateBeforeDestroy calls came before; ModifyCreateBeforeDestroy(false)
\* returns an error and ModifyCreateBeforeDestroy(true) returns none; no call
\* changes the node.
C8_AlwaysCreateBeforeDestroy ==
    /\ [](/\ lastCall.fn = "CreateBeforeDestroy" => lastCall.ret = TRUE
          /\ lastCall.fn = "ModifyCreateBeforeDestroy" =>
                (lastCall.err = "error") = (lastCall.arg = FALSE)
          /\ lastCall.fn = "ModifyCreateBeforeDestroy" =>
                (lastCall.err = "nil") = (lastCall.arg = TRUE))
    /\ [][lastCall' # lastCall => nodeKey' = nodeKey]_vars

\* ModifyCreateBeforeDestroy(false) has been called and has failed
C8_Witness ==
    /\ lastCall.fn = "ModifyCreateBeforeDestroy"
    /\ lastCall.arg = FALSE
    /\ lastCall.err = "error"

\* C9: once SetPreallocatedDeposedKey(k) has been called, the node's
\* PreallocatedDeposedKey is the key most recently injected; a node whose
\* setter was never called holds NotDeposed; a node holding a pre-allocated
\* key deposes the object under exactly that key.
C9_PreallocatedKeyKept ==
    /\ deposer.set => deposer.PreallocatedDeposedKey = deposer.injected
    /\ ~deposer.set => deposer.PreallocatedDeposedKey = NotDeposed
    /\ (deposer.used # NotDeposed /\ deposer.PreallocatedDeposedKey # NotDeposed) =>
            deposer.used = deposer.PreallocatedDeposedKey

\* a node given a key has deposed the current object under it
C9_Witness ==
    /\ deposer.set
    /\ deposer.PreallocatedDeposedKey # NotDeposed
    /\ deposer.used = deposer.PreallocatedDeposedKey
    /\ \E r \in deposed : r.key = deposer.used /\ r.id = deposer.usedId

----------------------------------------------------------------------------
(* Further claims about the walk (Spec) *)

ProviderCalls == {"Refresh", "PlanDestroy", "ApplyDestroy"}

\* the positions in n's log of the calls on the provider
AtProvider(n) == {i \in DOMAIN Log(n) : Log(n)[i].ev \in ProviderCalls}

\* C11: when ReadDeposed fails, the walk stops at that step: it has made no
\* provider call and issued no WriteDeposed, and it returns the repository
\* error; when WriteDeposed fails, no later step of the branch runs and the
\* walk returns.
C11_RepositoryErrorAborts ==
    \A n \in Nodes :
        /\ \A i \in At(n, "ReadDeposed") :
            ~Log(n)[i].ok =>
                /\ Returned(n)
                /\ ctx[n].ret = "repository"
                /\ At(n, "Return") = {i + 1}
                /\ AtProvider(n) = {}
                /\ At(n, "WriteDeposed") = {}
        /\ \A i \in At(n, "WriteDeposed") :
            ~Log(n)[i].ok =>
                /\ Returned(n)
                /\ ctx[n].ret = "repository"
                /\ At(n, "Return") = {i + 1}

\* one walk has stopped at a failed read in the apply branch, another at a
\* failed write
C11_Witness ==
    \E n, m \in Nodes :
        /\ ctx[n].op = walkApply
        /\ \E i \in At(n, "ReadDeposed") : ~Log(n)[i].ok
        /\ \E i \in At(m, "WriteDeposed") : ~Log(m)[i].ok

\* obj, or nothing when obj is absent, is what is filed under n's key
Left(n, obj) ==
    IF obj = NilObj THEN Filed(deposed, nodeKey[n]) = {} ELSE Holds(n, obj)

\* the positions in n's log of the repository calls that were performed
Done(n, e) == {i \in At(n, e) : Log(n)[i].ok}

\* a step of node n's walk leaves every other key's entry as it was
OwnKeyStep(n) ==
    ctx'[n] # ctx[n] =>
        \A k \in Keys : k # nodeKey[n] => Filed(deposed', k) = Filed(deposed, k)

\* C12: when the walks of two deposed nodes with different keys interleave,
\* each walk reads and writes only under its own key, what it writes is what
\* its own provider call answered, and the object held under its key when it
\* has returned is the one it wrote (or, if it wrote nothing, the one it read).
C12_ConcurrentWalksIndependent ==
    /\ [](\A n \in Nodes :
            /\ \A i \in At(n, "ReadDeposed") \cup At(n, "WriteDeposed") :
                    Log(n)[i].key = nodeKey[n]
            /\ \A j \in At(n, "WriteDeposed") :
                    \E i \in At(n, "Refresh") \cup At(n, "ApplyDestroy") :
                        i < j /\ Log(n)[j].obj = Log(n)[i].obj
            /\ Returned(n) =>
                    /\ \A j \in Done(n, "WriteDeposed") : Left(n, Log(n)[j].obj)
                    /\ Done(n, "WriteDeposed") = {} =>
                            \A i \in Done(n, "ReadDeposed") : Left(n, Log(n)[i].obj))
    /\ [][\A n \in Nodes : OwnKeyStep(n)]_vars

\* two walks are under way at once: one has written its state back and goes
\* on, the other has read its object and not yet written
C12_Witness ==
    \E n, m \in Nodes :
        /\ nodeKey[n] # nodeKey[m]
        /\ ctx[n].run = "running" /\ Done(n, "WriteDeposed") # {}
        /\ ctx[m].run = "running" /\ Done(m, "ReadDeposed") # {}
        /\ At(m, "WriteDeposed") = {}

----------------------------------------------------------------------------
(* Further claims about the graph-builder interface (SpecGraph) *)

\* C13: on every deposed node, in every state of the node and of its walk,
\* ReferenceableAddrs() and References() both return empty.
C13_NoReferences ==
    (lastCall.fn \in {"ReferenceableAddrs", "References"}) => lastCall.refs = {}

\* References() has been called on a node whose walk is under way
C13_Witness ==
    /\ lastCall.fn = "References"
    /\ lastCall.node \in WalkedNodes
    /\ ctx[lastCall.node].run = "running"
    /\ lastCall.refs = {}

----------------------------------------------------------------------------
(* Further claims about the walk (Spec), continued *)

\* a step that changes the repository is one node's performed WriteDeposed
\* under that node's key; it changes nothing but the entry under that key
RepositoryWriteStep ==
    (deposed' # deposed \/ current' # current) =>
        /\ current' = current
        /\ \E n \in Nodes :
            LET e == Log(n)'[Len(Log(n)')] IN
            /\ Len(Log(n)') = Len(Log(n)) + 1
            /\ e.ev = "WriteDeposed" /\ e.ok
            /\ e.key = nodeKey[n]
            /\ \A k \in Keys : k # e.key => Filed(deposed', k) = Filed(deposed, k)

\* C14: under any operation kind, every repository write of a walk is a
\* WriteDeposed under the node's own DeposedKey, the key the branch read
\* from; the current object of the address and the deposed objects under
\* other keys are left unchanged.
C14_NeverPromoted ==
    /\ [](\A n \in Nodes :
            \A i \in At(n, "ReadDeposed"), j \in At(n, "WriteDeposed") :
                /\ Log(n)[i].key = nodeKey[n]
                /\ Log(n)[j].key = Log(n)[i].key)
    /\ [][RepositoryWriteStep]_vars

\* a walk has replaced the object under its key while the current object and
\* the other node's entry are still there
C14_Witness ==
    \E n, m \in Nodes :
        /\ n # m /\ Returned(n)
        /\ \E i \in Done(n, "ReadDeposed"), j \in Done(n, "WriteDeposed") :
            Log(n)[j].obj # Log(n)[i].obj /\ Log(n)[j].obj # NilObj
        /\ Filed(deposed, nodeKey[m]) # {}
        /\ current # NilObj

\* C15: a walk under Apply that follows a walk whose ApplyDestroy failed and
\* left P under the node's key reads P as its baseline, and if the provider
\* then destroys successfully (the repository performing its calls) the entry
\* is removed and no error is returned.
C15_RetryStartsFromPartial ==
    \A n \in Nodes :
        (ctx[n].prev # NilObj /\ ctx[n].op \in {walkApply, walkDestroy}) =>
            /\ \A i \in Done(n, "ReadDeposed") : Log(n)[i].obj = ctx[n].prev
            /\ (Returned(n) /\ RepoOK(n)) =>
                \A i \in At(n, "ApplyDestroy") :
                    (Log(n)[i].ok /\ Log(n)[i].obj = NilObj) =>
                        /\ Filed(deposed, nodeKey[n]) = {}
                        /\ ctx[n].ret = "nil"

\* a retry has read an object P other than the initial one and destroyed it
C15_Witness ==
    \E n \in Nodes :
        /\ ctx[n].prev # NilObj /\ ctx[n].prev.val # 1
        /\ ctx[n].op = walkApply /\ Returned(n) /\ RepoOK(n)
        /\ \E i \in Done(n, "ReadDeposed") : Log(n)[i].obj = ctx[n].prev
        /\ \E i \in At(n, "ApplyDestroy") : Log(n)[i].ok /\ Log(n)[i].obj = NilObj
        /\ Filed(deposed, nodeKey[n]) = {}

\* C16: within one walk the provider's Refresh, PlanDestroy and ApplyDestroy
\* are each called at most once and ReadDeposed and WriteDeposed are each
\* issued at most once, also when a call fails.
C16_NoInProcessRetry ==
    \A n \in Nodes :
        \A e \in ProviderCalls \cup {"ReadDeposed", "WriteDeposed"} :
            Cardinality(At(n, e)) <= 1

\* a walk whose ApplyDestroy failed has returned, having applied and written
\* once
C16_Witness ==
    \E n \in Nodes :
        /\ Returned(n)
        /\ \E i \in At(n, "ApplyDestroy") : ~Log(n)[i].ok
        /\ Cardinality(At(n, "ApplyDestroy")) = 1
        /\ Cardinality(At(n, "WriteDeposed")) = 1

----------------------------------------------------------------------------
(* Claims about termination (SpecFair) *)

WalkedOps == {walkRefresh, walkApply, walkDestroy}

\* the calls that precede the state write in a branch and whose failure is the
\* step's own error
CallsBeforeWrite == {"ReadDeposed", "Refresh", "PlanDestroy"}

----------------------------------------------------------------------------
(* Implicit claims about the walk (Spec) *)

\* C18: after a walk in which ApplyDestroy failed, NotifyStateUpdated has
\* not fired; and (the repository performing its calls) NotifyPreApply and
\* NotifyPostApply have each fired once and WriteDeposed has run before the
\* provider's error was returned.
C18_NoStateUpdateAfterFailure ==
    \A n \in Nodes :
        \A i \in At(n, "ApplyDestroy") :
            ~Log(n)[i].ok =>
                /\ At(n, "NotifyStateUpdated") = {}
                /\ (Returned(n) /\ RepoOK(n)) =>
                    /\ HooksFired(n) = << "NotifyPreApply", "NotifyPostApply" >>
                    /\ ctx[n].ret = "provider"
                    /\ \E j \in At(n, "WriteDeposed"), r \in At(n, "Return") :
                            i < j /\ j < r

\* a failed destroy has returned its error after both apply hooks
C18_Witness ==
    \E n \in Nodes :
        /\ Returned(n) /\ RepoOK(n) /\ ctx[n].ret = "provider"
        /\ \E i \in At(n, "ApplyDestroy") : ~Log(n)[i].ok
        /\ At(n, "NotifyPostApply") # {}
        /\ At(n, "NotifyStateUpdated") = {}

\* the filters under which the walk of n made calls
BranchesEntered(n) == {Log(n)[i].br : i \in DOMAIN Log(n)} \ {0}

\* C19: a walk under an operation kind other than Refresh, Apply and Destroy
\* enters neither branch: it makes no repository, provider or hook call,
\* leaves the repository unchanged and returns no error; and a walk under any
\* operation kind makes calls under at most one of the two filters.
C19_OtherOperationDoesNothing ==
    /\ [](\A n \in Nodes :
            ctx[n].run # "idle" =>
                /\ Cardinality(BranchesEntered(n)) <= 1
                /\ ctx[n].op \notin WalkedOps =>
                    /\ \A i \in DOMAIN Log(n) : Log(n)[i].ev = "Return"
                    /\ ctx[n].inner = 0
                    /\ ctx[n].provider = FALSE
                    /\ ctx[n].ret = "nil")
    /\ [][\A n \in Nodes :
            (ctx'[n] # ctx[n] /\ ctx'[n].op \notin WalkedOps) =>
                (deposed' = deposed /\ current' = current)]_vars

\* a walk under Plan has returned, with the node's object still filed
C19_Witness ==
    \E n \in Nodes :
        /\ Returned(n) /\ ctx[n].op = walkPlan
        /\ Log(n) = << Event("Return", 0, 0, NilObj, TRUE) >>
        /\ Filed(deposed, nodeKey[n]) # {}

====
